---- MODULE Spec2Model ----
(***************************************************************************)
(* Model of src/interface.py: one Streamlit script run of main() fetches   *)
(* a JSON snapshot, builds a DataFrame, offers the sidebar filters,        *)
(* filters the frame, derives the quarterly / monthly / client rollups and *)
(* shows the overview, the statistics and the details of one case.  Every  *)
(* widget change reruns the script from the top.                           *)
(*                                                                         *)
(* A DataFrame is [columns : set of names, order : the names in column     *)
(* order, rows : sequence of rows]; a row                                  *)
(* is a function from column name to cell.  Text cells are strings, NaN    *)
(* and None are the reserved strings below; numeric cells are <<n>> or     *)
(* <<>> (NaN); datetime cells are hours since 2024-01-01 00:00 or NaT.     *)
(***************************************************************************)
EXTENDS Integers, Sequences, FiniteSets, TLC

VARIABLES pc, data_list, page, exception, df, options, selection, filtered_df,
          csv, quarterly_data, monthly_data, client_finance, gantt_all,
          overview_df, totals, fetches, stale, picked, selected_case, data

vars == <<pc, data_list, page, exception, df, options, selection, filtered_df,
          csv, quarterly_data, monthly_data, client_finance, gantt_all,
          overview_df, totals, fetches, stale, picked, selected_case, data>>

\* The case-detail view: the position the user picked in the selectbox, the
\* label the selectbox returned and the record shown.
case_view == <<picked, selected_case, data>>

\* Largest number of records in a fetched snapshot.
MaxRecs == 2

----------------------------------------------------------------------------
\* Cells

\* A key that a raw JSON object does not have.
Absent == "<absent>"
\* float('nan'): what pd.DataFrame puts where a record lacks a column's key.
NaN == "<nan>"
\* JSON null, kept as None in an object column.
None == "<none>"
\* pd.NaT, the unknown date.
NaT == -1

IsNA(v) == v \in {NaN, None}

\* Value of a numeric cell under sum(skipna=True): NaN adds nothing.
Num(c) == IF c = <<>> THEN 0 ELSE c[1]

----------------------------------------------------------------------------
\* Calendar (pd.to_datetime, Series.dt.to_period)

EpochYear == 2024

IsLeap(y) == (y % 4 = 0 /\ y % 100 # 0) \/ y % 400 = 0

DaysInMonth(y, m) ==
    IF m = 2 THEN (IF IsLeap(y) THEN 29 ELSE 28)
    ELSE IF m \in {4, 6, 9, 11} THEN 30 ELSE 31

DaysInYear(y) == IF IsLeap(y) THEN 366 ELSE 365

RECURSIVE DaysBeforeYear(_)
DaysBeforeYear(y) ==
    IF y <= EpochYear THEN 0 ELSE DaysBeforeYear(y - 1) + DaysInYear(y - 1)

RECURSIVE DaysBeforeMonth(_, _)
DaysBeforeMonth(y, m) ==
    IF m <= 1 THEN 0 ELSE DaysBeforeMonth(y, m - 1) + DaysInMonth(y, m - 1)

\* A raw date string "y-m-d h:00" read as a timestamp, in hours since the epoch.
Timestamp(y, m, d, h) ==
    (DaysBeforeYear(y) + DaysBeforeMonth(y, m) + (d - 1)) * 24 + h

\* A raw transferDate: a key that is absent, a text that is no date, or
\* a text of the shape "y-m-d h:00" (whose numbers may name no real day).
RawDate(k, y, m, d, h) == [k |-> k, y |-> y, m |-> m, d |-> d, h |-> h]
AbsentDate == RawDate("absent", 0, 0, 0, 0)
TextDate == RawDate("text", 0, 0, 0, 0)
Ymd(y, m, d, h) == RawDate("ymd", y, m, d, h)

\* pd.to_datetime(col, errors='coerce') on one cell: NaT when it is no date.
to_datetime(raw) ==
    IF /\ raw.k = "ymd"
       /\ raw.y >= EpochYear
       /\ raw.m \in 1..12
       /\ raw.d \in 1..DaysInMonth(raw.y, raw.m)
       /\ raw.h \in 0..23
    THEN Timestamp(raw.y, raw.m, raw.d, raw.h)
    ELSE NaT

\* Timestamp.date(): the calendar day of a timestamp, in days since the epoch.
DayOf(ts) == ts \div 24

\* pd.to_datetime(date): midnight of the day.
Midnight(day) == day * 24

RECURSIVE YearFrom(_, _)
YearFrom(y, days) ==
    IF days < DaysInYear(y) THEN y ELSE YearFrom(y + 1, days - DaysInYear(y))

YearOf(ts) == YearFrom(EpochYear, DayOf(ts))

RECURSIVE MonthFrom(_, _, _)
MonthFrom(y, m, days) ==
    IF days < DaysInMonth(y, m) THEN m
    ELSE MonthFrom(y, m + 1, days - DaysInMonth(y, m))

MonthOf(ts) == MonthFrom(YearOf(ts), 1, DayOf(ts) - DaysBeforeYear(YearOf(ts)))

\* Mutant: the quarter taken from month \div 3, which puts March in Q2.
QuarterOf_OffByOne(ts) == (MonthOf(ts) \div 3) + 1

QuarterOf(ts) == ((MonthOf(ts) - 1) \div 3) + 1

\* Series.dt.to_period('Q').astype(str): "2024Q2"; NaT becomes the text "NaT".
QuarterKey(ts) ==
    IF ts = NaT THEN "NaT"
    ELSE ToString(YearOf(ts)) \o "Q" \o ToString(QuarterOf(ts))

\* Series.dt.to_period('M').astype(str): "2024-05"; NaT becomes the text "NaT".
MonthKey(ts) ==
    IF ts = NaT THEN "NaT"
    ELSE ToString(YearOf(ts)) \o "-"
         \o (IF MonthOf(ts) < 10 THEN "0" ELSE "") \o ToString(MonthOf(ts))

----------------------------------------------------------------------------
\* Snapshots the API can return

TextFields == {"Car Number", "Client Name", "Case Type", "Amount Status",
               "Buyer payment", "Task Type"}
NumFields == {"Total Sale", "Total Cost", "Total Difference"}
DateFields == {"transferDate", "NOCissuedDate", "Invoice Date"}
Fields == TextFields \cup NumFields \cup DateFields

Base ==
    [f \in Fields |->
        CASE f = "Car Number" -> "A1"
          [] f = "Client Name" -> "X"
          [] f = "Case Type" -> "Transfer"
          [] f = "Amount Status" -> "Received"
          [] f = "Buyer payment" -> "Done"
          [] f = "Task Type" -> "RC"
          [] f = "Total Sale" -> <<100>>
          [] f = "Total Cost" -> <<40>>
          [] f = "Total Difference" -> <<60>>
          [] f = "transferDate" -> Ymd(2024, 1, 10, 0)
          [] f = "NOCissuedDate" -> Ymd(2024, 1, 5, 0)
          [] f = "Invoice Date" -> Ymd(2024, 1, 12, 0)]

With(rec, f, v) == [rec EXCEPT ![f] = v]

Second ==
    With(With(With(With(With(Base, "Car Number", "A2"),
        "Total Sale", <<200>>), "Total Cost", <<50>>),
        "Total Difference", <<150>>), "transferDate", Ymd(2024, 4, 5, 0))

\* The records a snapshot is made of: the base record, the second record of
\* the worked example, the base record with one field changed, and a second
\* record without 'Buyer payment' (another car of another client).  The
\* record of the other case type and the record of the other amount status
\* are those of a client and of a car whose names hold " - ".
RawRecords ==
    {Base, Second,
     With(Base, "Car Number", None),
     With(Base, "Client Name", "x"),
     With(Base, "Client Name", Absent),
     With(With(Base, "Case Type", "NOC"), "Client Name", "X - X"),
     With(With(Base, "Amount Status", "Pending"), "Car Number", "A1 - X"),
     With(Base, "Buyer payment", Absent),
     With(Base, "Total Sale", <<>>),
     With(Base, "transferDate", Ymd(2024, 3, 31, 10)),
     With(Base, "transferDate", Ymd(2024, 5, 15, 0)),
     With(Base, "transferDate", Ymd(2025, 12, 31, 0)),
     With(Base, "transferDate", TextDate),
     With(Base, "transferDate", AbsentDate),
     With(Base, "NOCissuedDate", TextDate),
     With(With(With(Base, "Buyer payment", Absent), "Car Number", "A2"),
          "Client Name", "x")}

SeqsUpTo(S, n) == UNION {[1..k -> S] : k \in 0..n}

Snapshots == SeqsUpTo(RawRecords, MaxRecs)

\* Amounts on both sides of every threshold of the short format, losses
\* among them.
Amounts ==
    {-25000000, -10000000, -100000, -1000, -1, 0, 999, 1000, 1049, 1050,
     1150, 1250, 1750, 99949, 99950, 99999, 100000, 250000, 9949999,
     9999999, 10000000, 123456789}

\* The base record with a profit and a cost of these amounts.
AmountRecords ==
    {With(With(Base, "Total Difference", <<d>>), "Total Cost", <<c>>) :
        d \in Amounts, c \in Amounts}

----------------------------------------------------------------------------
\* pd.DataFrame(data_list) and the date conversion

HasKey(rec, f) ==
    IF f \in NumFields THEN rec[f] # <<>>
    ELSE IF f \in DateFields THEN rec[f].k # "absent"
    ELSE rec[f] # Absent

\* The columns are the union of the records' keys.
ColumnsOf(recs) == {f \in Fields : \E i \in 1..Len(recs) : HasKey(recs[i], f)}

\* The order of the keys in a JSON object of the API.
FieldOrder ==
    <<"Car Number", "Client Name", "Case Type", "Task Type", "transferDate",
      "NOCissuedDate", "Invoice Date", "Total Cost", "Total Sale",
      "Total Difference", "Buyer payment", "Amount Status">>

KeysOf(rec) == SelectSeq(FieldOrder, LAMBDA f : HasKey(rec, f))

\* The columns stand in the order in which the keys first appear.
RECURSIVE ColumnOrder(_)
ColumnOrder(recs) ==
    IF recs = <<>> THEN <<>>
    ELSE LET front == ColumnOrder(SubSeq(recs, 1, Len(recs) - 1))
             seen == {front[i] : i \in 1..Len(front)}
         IN front \o SelectSeq(KeysOf(recs[Len(recs)]),
                               LAMBDA f : f \notin seen)

\* Mutant: the dates parsed record by record, a record with one date that
\* does not parse losing all its dates.
Cell_DatesByRecord(rec, f) ==
    IF f \in DateFields
    THEN IF \E g \in DateFields : rec[g].k # "absent" /\ to_datetime(rec[g]) = NaT
         THEN NaT ELSE to_datetime(rec[f])
    ELSE IF f \in NumFields THEN rec[f]
    ELSE IF rec[f] = Absent THEN NaN ELSE rec[f]

\* One cell: NaN where the record lacks the key; dates through to_datetime.
Cell(rec, f) ==
    IF f \in DateFields THEN to_datetime(rec[f])
    ELSE IF f \in NumFields THEN rec[f]
    ELSE IF rec[f] = Absent THEN NaN ELSE rec[f]

\* A row keeps its index label (0-based position in the snapshot).
MakeRow(rec, cols, i) ==
    [f \in cols \cup {"index"} |-> IF f = "index" THEN i - 1 ELSE Cell(rec, f)]

\* Mutant: a frame that drops the records whose transferDate did not parse.
DataFrame_DropsUnknownDates(recs) ==
    LET cols == ColumnsOf(recs)
        all == [i \in 1..Len(recs) |-> MakeRow(recs[i], cols, i)]
    IN [columns |-> cols,
        order |-> ColumnOrder(recs),
        rows |-> SelectSeq(all, LAMBDA r : "transferDate" \notin cols
                                            \/ r["transferDate"] # NaT)]

DataFrame(recs) ==
    LET cols == ColumnsOf(recs)
    IN [columns |-> cols,
        order |-> ColumnOrder(recs),
        rows |-> [i \in 1..Len(recs) |-> MakeRow(recs[i], cols, i)]]

EmptyFrame == [columns |-> {}, order |-> <<>>, rows |-> <<>>]

Column(frame, f) == [i \in 1..Len(frame.rows) |-> frame.rows[i][f]]

Range(s) == {s[i] : i \in 1..Len(s)}

----------------------------------------------------------------------------
\* The sidebar's options

\* Series.unique(): the distinct values in order of first appearance.
RECURSIVE Unique(_)
Unique(s) ==
    IF s = <<>> THEN <<>>
    ELSE LET front == Unique(SubSeq(s, 1, Len(s) - 1))
             last == s[Len(s)]
         IN IF last \in Range(front) THEN front ELSE Append(front, last)

\* Python's order of the strings of the model (by code point).
CodePointOrder ==
    <<"A1", "A1 - X", "A2", "Done", "NOC", "Pending", "RC", "Received",
      "Transfer", "X", "X - X", "x">>

Rank(s) == CHOOSE i \in 1..Len(CodePointOrder) : CodePointOrder[i] = s

\* sorted() compares its elements: a NaN or None beside another value is a
\* TypeError ('<' not supported between float/NoneType and str).
SortRaises(s) == Len(s) >= 2 /\ \E i \in 1..Len(s) : IsNA(s[i])

sorted(s) ==
    IF Len(s) <= 1 THEN s ELSE SortSeq(s, LAMBDA a, b : Rank(a) < Rank(b))

FilterFields == <<"Car Number", "Client Name", "Case Type", "Amount Status">>

\* ['All'] + sorted(df[f].unique().tolist())
OptionsOf(frame, f) == <<"All">> \o sorted(Unique(Column(frame, f)))

\* Lines 145-158 raise when a filter column is missing (KeyError) or holds a
\* missing value beside a text (TypeError).
OptionsRaise(frame) ==
    \E k \in 1..Len(FilterFields) :
        \/ FilterFields[k] \notin frame.columns
        \/ SortRaises(Unique(Column(frame, FilterFields[k])))

KnownDates(frame) ==
    IF "transferDate" \in frame.columns
    THEN {frame.rows[i]["transferDate"] : i \in 1..Len(frame.rows)} \ {NaT}
    ELSE {}

\* st.date_input is given df['transferDate'].min() and .max(); when no date
\* is known both are NaT, which the widget cannot turn into a date.
DateInputRaises(frame) ==
    "transferDate" \in frame.columns /\ KnownDates(frame) = {}

\* The days the user is offered: those from min_date to max_date on which
\* the snapshot has a record.
OfferedDays(frame) == {DayOf(ts) : ts \in KnownDates(frame)}

\* What the date widget can return: one day (a range being picked) or a
\* start and an end day; nothing when there is no transferDate column.
DateRanges(frame) ==
    IF "transferDate" \notin frame.columns THEN {<<>>}
    ELSE {<<a>> : a \in OfferedDays(frame)}
         \cup {<<p[1], p[2]>> :
                 p \in {q \in OfferedDays(frame) \X OfferedDays(frame) :
                           q[1] <= q[2]}}

\* Everything the user can select in the sidebar.
Selections(frame, opts) ==
    {[car |-> c, client |-> n, case_type |-> t, status |-> s, date_range |-> d] :
        c \in Range(opts["Car Number"]), n \in Range(opts["Client Name"]),
        t \in Range(opts["Case Type"]), s \in Range(opts["Amount Status"]),
        d \in DateRanges(frame)}

NoSelection ==
    [car |-> "All", client |-> "All", case_type |-> "All", status |-> "All",
     date_range |-> <<>>]

----------------------------------------------------------------------------
\* Applying the filters (lines 172-185)

\* Mutant: a comparison that ignores the case of the client's name.
Eq_IgnoreCase(cell, value) ==
    /\ ~IsNA(cell)
    /\ ~IsNA(value)
    /\ (IF cell = "x" THEN "X" ELSE cell) = (IF value = "x" THEN "X" ELSE value)

\* Series == value: a missing value on either side compares False.
Eq(cell, value) == ~IsNA(cell) /\ ~IsNA(value) /\ cell = value

\* Timestamp comparisons: NaT compares False.
Ge(ts, bound) == ts # NaT /\ ts >= bound
Le(ts, bound) == ts # NaT /\ ts <= bound

\* Mutant: a mask that is one row out of step and loses the first match.
FilterBy_LosesFirstMatch(rows, f, selected) ==
    IF selected = "All" THEN rows
    ELSE LET kept == SelectSeq(rows, LAMBDA r : Eq(r[f], selected))
         IN IF kept = <<>> THEN kept ELSE Tail(kept)

FilterBy(rows, f, selected) ==
    IF selected # "All" THEN SelectSeq(rows, LAMBDA r : Eq(r[f], selected))
    ELSE rows

InDateRange(ts, date_range) ==
    Ge(ts, Midnight(date_range[1])) /\ Le(ts, Midnight(date_range[2]))

\* Mutant: the rows of the date range shown newest first.
FilterByDate_NewestFirst(frame, rows, date_range) ==
    IF "transferDate" \in frame.columns /\ Len(date_range) = 2
    THEN SortSeq(SelectSeq(rows, LAMBDA r : InDateRange(r["transferDate"], date_range)),
                 LAMBDA a, b : a["transferDate"] > b["transferDate"])
    ELSE rows

\* Mutant: a single picked date taken as a range of that one day.
FilterByDate_SingleDay(frame, rows, date_range) ==
    IF "transferDate" \in frame.columns /\ Len(date_range) >= 1
    THEN SelectSeq(rows, LAMBDA r :
             Ge(r["transferDate"], Midnight(date_range[1]))
             /\ Le(r["transferDate"], Midnight(date_range[Len(date_range)])))
    ELSE rows

FilterByDate(frame, rows, date_range) ==
    IF "transferDate" \in frame.columns /\ Len(date_range) = 2
    THEN SelectSeq(rows, LAMBDA r : InDateRange(r["transferDate"], date_range))
    ELSE rows

ApplyFilters(frame, sel) ==
    FilterByDate(frame,
        FilterBy(FilterBy(FilterBy(FilterBy(frame.rows,
            "Car Number", sel.car),
            "Client Name", sel.client),
            "Case Type", sel.case_type),
            "Amount Status", sel.status),
        sel.date_range)

----------------------------------------------------------------------------
\* Aggregation (DataFrame.groupby(key).agg(...))

\* Mutant: agg 'first' in place of 'sum'.
SumOf_First(rows, f) == IF rows = <<>> THEN 0 ELSE Num(rows[1][f])

RECURSIVE SumOf(_, _)
\* Series.sum(): NaN is skipped, the sum of nothing is 0.
SumOf(rows, f) ==
    IF rows = <<>> THEN 0
    ELSE SumOf(SubSeq(rows, 1, Len(rows) - 1), f) + Num(rows[Len(rows)][f])

\* Series.count(): the number of cells that are not missing.
CountOf(rows, f) == Cardinality({i \in 1..Len(rows) : ~IsNA(rows[i][f])})

\* The group keys: groupby drops the rows whose key is missing.
GroupKeys(rows, key) == {rows[i][key] : i \in 1..Len(rows)} \ {NaN, None}

\* Mutant: a group that keeps only its first row.
Group_FirstOnly(rows, key, k) ==
    LET all == SelectSeq(rows, LAMBDA r : r[key] = k)
    IN IF all = <<>> THEN all ELSE <<all[1]>>

Group(rows, key, k) == SelectSeq(rows, LAMBDA r : r[key] = k)

\* agg({'Total Sale': 'sum', 'Total Cost': 'sum', 'Total Difference': 'sum',
\*      'Car Number': 'count'}), the count renamed 'Case Count'.
AggWithCount(rows) ==
    [sale |-> SumOf(rows, "Total Sale"),
     cost |-> SumOf(rows, "Total Cost"),
     diff |-> SumOf(rows, "Total Difference"),
     count |-> CountOf(rows, "Car Number")]

\* agg({'Total Sale': 'sum', 'Total Cost': 'sum', 'Total Difference': 'sum'})
AggSums(rows) ==
    [sale |-> SumOf(rows, "Total Sale"),
     cost |-> SumOf(rows, "Total Cost"),
     diff |-> SumOf(rows, "Total Difference")]

GroupByQuarter(rows) ==
    [k \in GroupKeys(rows, "Quarter") |-> AggWithCount(Group(rows, "Quarter", k))]

GroupByMonth(rows) ==
    [k \in GroupKeys(rows, "Month") |-> AggSums(Group(rows, "Month", k))]

GroupByClient(rows) ==
    [k \in GroupKeys(rows, "Client Name") |->
        AggWithCount(Group(rows, "Client Name", k))]

\* filtered_df['Quarter'] = filtered_df['transferDate'].dt.to_period('Q').astype(str)
WithQuarter(r) ==
    [f \in DOMAIN r \cup {"Quarter"} |->
        IF f = "Quarter" THEN QuarterKey(r["transferDate"]) ELSE r[f]]

\* filtered_df['Month'] = filtered_df['transferDate'].dt.to_period('M').astype(str)
WithMonth(r) ==
    [f \in DOMAIN r \cup {"Month"} |->
        IF f = "Month" THEN MonthKey(r["transferDate"]) ELSE r[f]]

AddQuarter(rows) == [i \in 1..Len(rows) |-> WithQuarter(rows[i])]

AddPeriods(rows) == [i \in 1..Len(rows) |-> WithMonth(WithQuarter(rows[i]))]

OverviewColumns ==
    {"Car Number", "Client Name", "Case Type", "Task Type", "transferDate",
     "Total Cost", "Total Sale", "Buyer payment"}

NoTotals == [cases |-> 0, cost |-> 0, sale |-> 0, profit |-> 0]

Statistics(rows) ==
    [cases |-> Len(rows),
     cost |-> SumOf(rows, "Total Cost"),
     sale |-> SumOf(rows, "Total Sale"),
     profit |-> SumOf(rows, "Total Difference")]

----------------------------------------------------------------------------
\* The download (DataFrame.to_csv(index=False))

Pad2(n) == (IF n < 10 THEN "0" ELSE "") \o ToString(n)

DayOfMonth(ts) ==
    DayOf(ts) - DaysBeforeYear(YearOf(ts))
              - DaysBeforeMonth(YearOf(ts), MonthOf(ts)) + 1

HourOf(ts) == ts % 24

DateText(ts) ==
    ToString(YearOf(ts)) \o "-" \o Pad2(MonthOf(ts)) \o "-" \o Pad2(DayOfMonth(ts))

DateTimeText(ts) == DateText(ts) \o " " \o Pad2(HourOf(ts)) \o ":00:00"

\* A datetime column is written as plain dates when none of the values to
\* write has a time of day.
DatesOnly(rows, f) ==
    \A i \in 1..Len(rows) : rows[i][f] = NaT \/ HourOf(rows[i][f]) = 0

\* A numeric column that holds a NaN is float64 and is written as "100.0".
IsFloatColumn(frame, f) == \E i \in 1..Len(frame.rows) : frame.rows[i][f] = <<>>

\* The text of one cell; a missing value is written as the empty text.
CsvCell(frame, rows, r, f) ==
    IF f \in DateFields
    THEN IF r[f] = NaT THEN ""
         ELSE IF DatesOnly(rows, f) THEN DateText(r[f]) ELSE DateTimeText(r[f])
    ELSE IF f \in NumFields
    THEN IF r[f] = <<>> THEN ""
         ELSE ToString(r[f][1]) \o (IF IsFloatColumn(frame, f) THEN ".0" ELSE "")
    ELSE IF IsNA(r[f]) THEN "" ELSE r[f]

CsvRow(frame, rows, r, header) ==
    [k \in 1..Len(header) |-> CsvCell(frame, rows, r, header[k])]

\* Mutant: to_csv() without index=False, which writes the index as a first,
\* unnamed column.
to_csv_WithIndex(frame, rows) ==
    [header |-> <<"">> \o frame.order,
     rows |-> [i \in 1..Len(rows) |->
                 <<ToString(rows[i]["index"])>>
                 \o CsvRow(frame, rows, rows[i], frame.order)]]

\* filtered_df.to_csv(index=False): the header is the frame's column names.
to_csv(frame, rows) ==
    [header |-> frame.order,
     rows |-> [i \in 1..Len(rows) |-> CsvRow(frame, rows, rows[i], frame.order)]]

NoCsv == [header |-> <<>>, rows |-> <<>>]

\* Mutant: filtered_df = df, which leaves the two names on one object until a
\* filter replaces filtered_df by a selection of its rows.
SharesSource_NoCopy(frame, sel) ==
    /\ sel.car = "All" /\ sel.client = "All"
    /\ sel.case_type = "All" /\ sel.status = "All"
    /\ ~("transferDate" \in frame.columns /\ Len(sel.date_range) = 2)

\* filtered_df = df.copy(): the filtered frame is never the object df.
SharesSource(frame, sel) == FALSE

\* The frame named df after `filtered_df[added] = ...` has been executed.
AfterAssignment(frame, sel, rows, added) ==
    IF SharesSource(frame, sel)
    THEN [columns |-> frame.columns \cup Range(added),
          order |-> frame.order \o added,
          rows |-> rows]
    ELSE frame

----------------------------------------------------------------------------
\* Amounts as text

Pad3(n) == (IF n < 10 THEN "00" ELSE IF n < 100 THEN "0" ELSE "") \o ToString(n)

\* The ',' of the format: the digits in groups of three.
RECURSIVE Grouped(_)
Grouped(n) ==
    IF n < 1000 THEN ToString(n)
    ELSE Grouped(n \div 1000) \o "," \o Pad3(n % 1000)

\* format_rupees: f"₹{amount:,.2f}"; a NaN is written "nan".
format_rupees(c) ==
    IF c = <<>> THEN "₹nan"
    ELSE "₹" \o (IF c[1] < 0 THEN "-" \o Grouped(-c[1]) ELSE Grouped(c[1])) \o ".00"

\* The thresholds of format_rupees_short.
Crore == 10000000
Lakh == 100000
Thousand == 1000

\* amount / unit is a double.  Where the quotient lies exactly between two
\* tenths and is no binary fraction, the double nearest to it lies beside the
\* tie: below it for these amounts and units, above it for those.
DoubleBelowTie == {<<1150, Thousand>>}
DoubleAboveTie == {<<1050, Thousand>>, <<99950, Thousand>>}

\* The tenths of f"{amount/unit:.1f}" for an amount >= 0: the double rounded
\* to the nearest tenth, an exact tie (.25, .75) to the even tenth.
Tenths(amount, unit) ==
    LET tenth == unit \div 10
        down == amount \div tenth
        rest == amount % tenth
    IN IF 2 * rest < tenth THEN down
       ELSE IF 2 * rest > tenth THEN down + 1
       ELSE IF <<amount, unit>> \in DoubleBelowTie THEN down
       ELSE IF <<amount, unit>> \in DoubleAboveTie THEN down + 1
       ELSE IF down % 2 = 0 THEN down ELSE down + 1

\* f"{amount/unit:.1f}"
OneDecimal(amount, unit) ==
    LET t == Tenths(amount, unit)
    IN ToString(t \div 10) \o "." \o ToString(t % 10)

\* f"{amount:,.0f}" of a whole amount.
Plain(amount) ==
    IF amount < 0 THEN "-" \o Grouped(-amount) ELSE Grouped(amount)

\* Mutant: the unit chosen by the size of the amount, whatever its sign.
format_rupees_short_BySize(c) ==
    IF c = <<>> THEN "₹nan"
    ELSE LET size == IF c[1] < 0 THEN -c[1] ELSE c[1]
             sign == IF c[1] < 0 THEN "-" ELSE ""
         IN IF size >= Crore THEN "₹" \o sign \o OneDecimal(size, Crore) \o "Cr"
            ELSE IF size >= Lakh THEN "₹" \o sign \o OneDecimal(size, Lakh) \o "L"
            ELSE IF size >= Thousand
                 THEN "₹" \o sign \o OneDecimal(size, Thousand) \o "K"
            ELSE "₹" \o Plain(c[1])

\* format_rupees_short; every comparison with a NaN is False, so a NaN is
\* written by the last branch, as "nan".
format_rupees_short(c) ==
    IF c = <<>> THEN "₹nan"
    ELSE IF c[1] >= Crore THEN "₹" \o OneDecimal(c[1], Crore) \o "Cr"
    ELSE IF c[1] >= Lakh THEN "₹" \o OneDecimal(c[1], Lakh) \o "L"
    ELSE IF c[1] >= Thousand THEN "₹" \o OneDecimal(c[1], Thousand) \o "K"
    ELSE "₹" \o Plain(c[1])

----------------------------------------------------------------------------
\* The client-wise profit and cost timeline

\* pd.Timedelta(days=7)
TimelineDays == 7

\* Mutant: a window that ends on the seventh day, one day early.
SpanEnd_SixDays(ts) == ts + (TimelineDays - 1) * 24

\* gantt_df['End'] = gantt_df['transferDate'] + pd.Timedelta(days=7)
SpanEnd(ts) == ts + TimelineDays * 24

\* 'Client Name' + ' Profit': a missing name stays missing.
TaskOf(client, type) == IF IsNA(client) THEN NaN ELSE client \o " " \o type

\* One row of gantt_df, and of cost_gantt with 'Total Difference' overwritten
\* by 'Total Cost'.
Span(r, type) ==
    [Client |-> r["Client Name"],
     Start |-> r["transferDate"],
     End |-> SpanEnd(r["transferDate"]),
     Amount |-> IF type = "Profit" THEN r["Total Difference"] ELSE r["Total Cost"],
     Cost |-> r["Total Cost"],
     ProfitLabel |-> format_rupees_short(IF type = "Profit"
                                         THEN r["Total Difference"]
                                         ELSE r["Total Cost"]),
     CostLabel |-> format_rupees_short(r["Total Cost"]),
     Task |-> TaskOf(r["Client Name"], type),
     Type |-> type]

\* gantt_df.dropna(subset=['transferDate'])
DropUnknownDates(rows) == SelectSeq(rows, LAMBDA r : r["transferDate"] # NaT)

\* pd.concat([gantt_df, cost_gantt], ignore_index=True)
Timeline(rows) ==
    LET dated == DropUnknownDates(rows)
    IN [i \in 1..Len(dated) |-> Span(dated[i], "Profit")]
       \o [i \in 1..Len(dated) |-> Span(dated[i], "Cost")]

----------------------------------------------------------------------------
\* The overview table

OverviewOrder ==
    <<"Car Number", "Client Name", "Case Type", "Task Type", "transferDate",
      "Total Cost", "Total Sale", "Buyer payment">>

\* .rename(columns={'Buyer payment': 'Status'})
Renamed(f) == IF f = "Buyer payment" THEN "Status" ELSE f

\* display_df with the two amounts formatted, cut down to the overview's
\* columns and renamed.
OverviewRow(r) ==
    [c \in {Renamed(f) : f \in Range(OverviewOrder)} |->
        IF c = "Status" THEN r["Buyer payment"]
        ELSE IF c \in {"Total Cost", "Total Sale"} THEN format_rupees(r[c])
        ELSE r[c]]

OverviewTable(rows) == [i \in 1..Len(rows) |-> OverviewRow(rows[i])]

----------------------------------------------------------------------------
\* The case details (lines 807-816)

\* str() of a text cell inside an f-string.
Str(v) == IF v = None THEN "None" ELSE IF v = NaN THEN "nan" ELSE v

\* f"{row['Car Number']} - {row['Client Name']}"
CaseLabel(r) == Str(r["Car Number"]) \o " - " \o Str(r["Client Name"])

case_options(rows) == [i \in 1..Len(rows) |-> CaseLabel(rows[i])]

\* list.index(v): the first position that holds v.
IndexOf(s, v) ==
    CHOOSE i \in 1..Len(s) : s[i] = v /\ \A j \in 1..(i - 1) : s[j] # v

\* Series.to_dict(): the cells by column name, without the index label.
to_dict(r) == [f \in DOMAIN r \ {"index"} |-> r[f]]

NoCase == [f \in {} |-> 0]

----------------------------------------------------------------------------
\* One script run

NoData == [kind |-> "none", items |-> <<>>]

\* fetches counts the calls of requests.get in the run; stale records that
\* the last list the API returned in this session was fetched by an earlier
\* run (what a cache kept across runs would still hold).
Init ==
    /\ pc = "start"
    /\ data_list = NoData
    /\ page = {}
    /\ exception = "none"
    /\ df = EmptyFrame
    /\ options = <<>>
    /\ selection = NoSelection
    /\ filtered_df = <<>>
    /\ csv = NoCsv
    /\ quarterly_data = <<>>
    /\ monthly_data = <<>>
    /\ client_finance = <<>>
    /\ gantt_all = <<>>
    /\ overview_df = <<>>
    /\ totals = NoTotals
    /\ fetches = 0
    /\ stale = FALSE
    /\ picked = 0
    /\ selected_case = ""
    /\ data = NoCase

\* fetch_data(): the JSON body on status 200, else st.error and None.
FetchOk ==
    /\ pc = "start"
    /\ \E items \in Snapshots : data_list' = [kind |-> "list", items |-> items]
    /\ fetches' = fetches + 1
    /\ stale' = FALSE
    /\ pc' = "fetched"
    /\ UNCHANGED <<page, exception, df, options, selection, filtered_df, csv,
                   quarterly_data, monthly_data, client_finance, gantt_all,
                   overview_df, totals>>
    /\ UNCHANGED case_view

\* fetch_data() returning one record whose amounts are large or negative.
FetchAmounts ==
    /\ pc = "start"
    /\ \E rec \in AmountRecords :
           data_list' = [kind |-> "list", items |-> <<rec>>]
    /\ fetches' = fetches + 1
    /\ stale' = FALSE
    /\ pc' = "fetched"
    /\ UNCHANGED <<page, exception, df, options, selection, filtered_df, csv,
                   quarterly_data, monthly_data, client_finance, gantt_all,
                   overview_df, totals>>
    /\ UNCHANGED case_view

\* Status 200 with a JSON body that is no list (a non-empty object).
FetchNonList ==
    /\ pc = "start"
    /\ data_list' = [kind |-> "object", items |-> <<>>]
    /\ fetches' = fetches + 1
    /\ pc' = "fetched"
    /\ UNCHANGED <<page, exception, df, options, selection, filtered_df, csv,
                   quarterly_data, monthly_data, client_finance, gantt_all,
                   overview_df, totals, stale>>
    /\ UNCHANGED case_view

\* Mutant: a failed fetch that is swallowed without st.error.
FetchBadStatus_Silent ==
    /\ pc = "start"
    /\ data_list' = [kind |-> "none", items |-> <<>>]
    /\ fetches' = fetches + 1
    /\ pc' = "fetched"
    /\ UNCHANGED <<page, exception, df, options, selection, filtered_df, csv,
                   quarterly_data, monthly_data, client_finance, gantt_all,
                   overview_df, totals, stale>>
    /\ UNCHANGED case_view

FetchBadStatus ==
    /\ pc = "start"
    /\ data_list' = NoData
    /\ fetches' = fetches + 1
    /\ page' = page \cup {"error: Failed to fetch data. Status code"}
    /\ pc' = "fetched"
    /\ UNCHANGED <<exception, df, options, selection, filtered_df, csv,
                   quarterly_data, monthly_data, client_finance, gantt_all,
                   overview_df, totals, stale>>
    /\ UNCHANGED case_view

FetchConnectionError ==
    /\ pc = "start"
    /\ data_list' = NoData
    /\ fetches' = fetches + 1
    /\ page' = page \cup {"error: Error connecting to API"}
    /\ pc' = "fetched"
    /\ UNCHANGED <<exception, df, options, selection, filtered_df, csv,
                   quarterly_data, monthly_data, client_finance, gantt_all,
                   overview_df, totals, stale>>
    /\ UNCHANGED case_view

\* `if data_list and isinstance(data_list, list)`
Usable == data_list.kind = "list" /\ data_list.items # <<>>

\* Lines 130-170: the frame, the date conversion and the sidebar's options.
BuildSidebar ==
    /\ pc = "fetched"
    /\ Usable
    /\ df' = DataFrame(data_list.items)
    /\ IF OptionsRaise(df') \/ DateInputRaises(df')
       THEN /\ pc' = "raised"
            /\ exception' =
                 (IF \E k \in 1..Len(FilterFields) :
                        FilterFields[k] \notin df'.columns
                  THEN "KeyError"
                  ELSE IF OptionsRaise(df') THEN "TypeError" ELSE "ValueError")
            /\ UNCHANGED <<options, page>>
       ELSE /\ pc' = "sidebar"
            /\ options' = [f \in Range(FilterFields) |-> OptionsOf(df', f)]
            /\ page' = page \cup {"sidebar"}
            /\ UNCHANGED exception
    /\ UNCHANGED <<data_list, selection, filtered_df, csv, quarterly_data,
                   monthly_data, client_finance, gantt_all, overview_df,
                   totals, fetches, stale>>
    /\ UNCHANGED case_view

\* Lines 935-938: nothing to work on.
Unavailable ==
    /\ pc = "fetched"
    /\ ~Usable
    /\ page' = page \cup
          {IF data_list.kind = "object"
           THEN "warning: Unexpected data format received from API"
           ELSE "warning: No data available or failed to fetch data."}
    /\ pc' = "done"
    /\ UNCHANGED <<data_list, exception, df, options, selection, filtered_df,
                   csv, quarterly_data, monthly_data, client_finance,
                   gantt_all, overview_df, totals, fetches, stale>>
    /\ UNCHANGED case_view

\* Lines 146-192: the widgets return the user's selection, the filters are
\* applied and the download button is given the filtered frame as CSV.
FilterWith(sel) ==
    /\ selection' = sel
    /\ filtered_df' = ApplyFilters(df, sel)
    /\ csv' = to_csv(df, filtered_df')
    /\ page' = page \cup {"download_button"}
    /\ pc' = "filtered"
    /\ UNCHANGED <<data_list, exception, df, options, quarterly_data,
                   monthly_data, client_finance, gantt_all, overview_df,
                   totals, fetches, stale>>
    /\ UNCHANGED case_view

SelectAndFilter ==
    /\ pc = "sidebar"
    /\ \E sel \in Selections(df, options) : FilterWith(sel)

\* The selections that keep every row: each dimension 'All' and no two dates.
KeepsAll(sel) ==
    /\ sel.car = "All" /\ sel.client = "All"
    /\ sel.case_type = "All" /\ sel.status = "All"
    /\ Len(sel.date_range) < 2

\* The same step with the widgets left on a selection that keeps every row.
SelectEverything ==
    /\ pc = "sidebar"
    /\ \E sel \in {x \in Selections(df, options) : KeepsAll(x)} : FilterWith(sel)

\* Lines 196-720: the quarterly dashboard, entered only with rows to show.
Dashboard ==
    /\ pc = "filtered"
    /\ IF filtered_df # <<>> /\ "transferDate" \in df.columns
       THEN IF NumFields \subseteq df.columns
            THEN /\ filtered_df' = AddPeriods(filtered_df)
                 /\ df' = AfterAssignment(df, selection, filtered_df',
                                          <<"Quarter", "Month">>)
                 /\ quarterly_data' = GroupByQuarter(filtered_df')
                 /\ monthly_data' = GroupByMonth(filtered_df')
                 /\ client_finance' = GroupByClient(filtered_df')
                 /\ gantt_all' = Timeline(filtered_df')
                 /\ page' = page \cup {"quarterly_dashboard"}
                 /\ pc' = "dashboard"
                 /\ UNCHANGED exception
            ELSE /\ filtered_df' = AddQuarter(filtered_df)
                 /\ df' = AfterAssignment(df, selection, filtered_df',
                                          <<"Quarter">>)
                 /\ pc' = "raised"
                 /\ exception' = "KeyError"
                 /\ UNCHANGED <<quarterly_data, monthly_data, client_finance,
                                gantt_all, page>>
       ELSE /\ pc' = "dashboard"
            /\ UNCHANGED <<df, filtered_df, quarterly_data, monthly_data,
                           client_finance, gantt_all, page, exception>>
    /\ UNCHANGED <<data_list, options, selection, csv, overview_df, totals,
                   fetches, stale>>
    /\ UNCHANGED case_view

\* Lines 724-931: the overview table, the statistics and the case details.
Overview ==
    /\ pc = "dashboard"
    /\ IF OverviewColumns \subseteq df.columns /\ NumFields \subseteq df.columns
       THEN /\ overview_df' = OverviewTable(filtered_df)
            /\ totals' = Statistics(filtered_df)
            /\ page' = page \cup {"overview_table", "statistics"} \cup
                 {IF Len(filtered_df) > 0 THEN "case_details"
                  ELSE "warning: No cases match your filters"}
            /\ IF Len(filtered_df) > 0
               THEN \E k \in 1..Len(filtered_df) :
                        LET labels == case_options(filtered_df)
                            selected_index == IndexOf(labels, labels[k])
                        IN /\ picked' = k
                           /\ selected_case' = labels[k]
                           /\ data' = to_dict(filtered_df[selected_index])
               ELSE UNCHANGED case_view
            /\ pc' = "done"
            /\ UNCHANGED exception
       ELSE /\ pc' = "raised"
            /\ exception' = "KeyError"
            /\ UNCHANGED <<overview_df, totals, page>>
            /\ UNCHANGED case_view
    /\ UNCHANGED <<data_list, df, options, selection, filtered_df, csv,
                   quarterly_data, monthly_data, client_finance, gantt_all,
                   fetches, stale>>

\* Mutant: a rerun that keeps the frame of the run before (a cached frame).
Rerun_KeepsFrame ==
    /\ pc \in {"done", "raised"}
    /\ pc' = "start"
    /\ data_list' = NoData
    /\ page' = {}
    /\ exception' = "none"
    /\ options' = <<>>
    /\ selection' = NoSelection
    /\ filtered_df' = <<>>
    /\ csv' = NoCsv
    /\ quarterly_data' = <<>>
    /\ monthly_data' = <<>>
    /\ client_finance' = <<>>
    /\ gantt_all' = <<>>
    /\ overview_df' = <<>>
    /\ totals' = NoTotals
    /\ fetches' = 0
    /\ stale' = (stale \/ data_list.kind = "list")
    /\ picked' = 0
    /\ selected_case' = ""
    /\ data' = NoCase
    /\ UNCHANGED df

\* Any widget change reruns the script from the top with fresh locals.
Rerun ==
    /\ pc \in {"done", "raised"}
    /\ pc' = "start"
    /\ data_list' = NoData
    /\ page' = {}
    /\ exception' = "none"
    /\ df' = EmptyFrame
    /\ options' = <<>>
    /\ selection' = NoSelection
    /\ filtered_df' = <<>>
    /\ csv' = NoCsv
    /\ quarterly_data' = <<>>
    /\ monthly_data' = <<>>
    /\ client_finance' = <<>>
    /\ gantt_all' = <<>>
    /\ overview_df' = <<>>
    /\ totals' = NoTotals
    /\ fetches' = 0
    /\ stale' = (stale \/ data_list.kind = "list")
    /\ picked' = 0
    /\ selected_case' = ""
    /\ data' = NoCase

fetch_data == FetchOk \/ FetchNonList \/ FetchBadStatus \/ FetchConnectionError

Next ==
    \/ fetch_data
    \/ BuildSidebar
    \/ Unavailable
    \/ SelectAndFilter
    \/ Dashboard
    \/ Overview
    \/ Rerun

Spec == Init /\ [][Next]_vars

\* The run up to the sidebar (lines 128-170), for what is claimed of the
\* frame alone.
NextToSidebar ==
    \/ fetch_data
    \/ BuildSidebar
    \/ Unavailable
    \/ Rerun

SpecToSidebar == Init /\ [][NextToSidebar]_vars

\* The run up to the download button (lines 128-192), for what is claimed of
\* the filter and of the export alone.
NextToFilter ==
    \/ fetch_data
    \/ BuildSidebar
    \/ Unavailable
    \/ SelectAndFilter
    \/ Rerun

SpecToFilter == Init /\ [][NextToFilter]_vars

\* The runs that group the whole snapshot (no filter active), for what is
\* claimed of the grouping alone.
NextGrouping ==
    \/ fetch_data
    \/ BuildSidebar
    \/ Unavailable
    \/ SelectEverything
    \/ Dashboard
    \/ Rerun

SpecGrouping == Init /\ [][NextGrouping]_vars

\* The runs on one record of any of the amounts, no filter active, for what
\* is claimed of the short format of an amount.
NextAmounts ==
    \/ FetchAmounts
    \/ BuildSidebar
    \/ SelectEverything
    \/ Dashboard
    \/ Overview
    \/ Rerun

SpecAmounts == Init /\ [][NextAmounts]_vars

----------------------------------------------------------------------------
\* Properties

\* The filters have been applied in this run.
Filtered == "download_button" \in page

\* The quarterly dashboard has been derived in this run.
Derived == "quarterly_dashboard" \in page

\* The index labels of the rows of the source frame and of the filtered frame.
FilteredIndices == {filtered_df[i]["index"] : i \in 1..Len(filtered_df)}
SourceRows == {df.rows[i] : i \in 1..Len(df.rows)}

\* The raw record a row was made from.
RawOf(r) == data_list.items[r["index"] + 1]

DateActive == Len(selection.date_range) = 2

\* The row has the selected value on every dimension that is not 'All'.
EqualOnSelected(r) ==
    /\ selection.car = "All" \/ r["Car Number"] = selection.car
    /\ selection.client = "All" \/ r["Client Name"] = selection.client
    /\ selection.case_type = "All" \/ r["Case Type"] = selection.case_type
    /\ selection.status = "All" \/ r["Amount Status"] = selection.status

\* Every selection is 'All' or a value (not the missing value of a column
\* that holds nothing else).
SelectionOfValues ==
    ~IsNA(selection.car) /\ ~IsNA(selection.client)
    /\ ~IsNA(selection.case_type) /\ ~IsNA(selection.status)

\* The row's timestamp is known and lies between the two selected dates,
\* each taken at 00:00.
InSelectedRange(r) ==
    /\ r["transferDate"] # NaT
    /\ r["transferDate"] >= selection.date_range[1] * 24
    /\ r["transferDate"] <= selection.date_range[2] * 24

OnSelectedDays(r) ==
    /\ RawOf(r)["transferDate"].k = "ymd"
    /\ r["transferDate"] # NaT
    /\ DayOf(r["transferDate"]) >= selection.date_range[1]
    /\ DayOf(r["transferDate"]) <= selection.date_range[2]

\* C2: with a date range selected, exactly the rows dated on a day from the
\* start day to the end day (both included) pass the date filter.
C2_DateRangeInclusiveByDay ==
    (Filtered /\ SelectionOfValues /\ DateActive) =>
        FilteredIndices =
            {r["index"] : r \in {x \in SourceRows :
                EqualOnSelected(x) /\ OnSelectedDays(x)}}

\* C3: a row with an unknown transferDate that satisfies every selected
\* equality constraint is among the rows the statistics and the client
\* rollup are taken over, and its client has a bucket.
C3_UnknownDateCountedInClientAndTotals ==
    ("statistics" \in page /\ SelectionOfValues) =>
        \A i \in 1..Len(df.rows) :
            (df.rows[i]["transferDate"] = NaT /\ EqualOnSelected(df.rows[i])) =>
                /\ df.rows[i]["index"] \in FilteredIndices
                /\ totals.cases >= 1
                /\ Derived => df.rows[i]["Client Name"] \in DOMAIN client_finance

\* The filtered rows whose transferDate is known.
KnownRows == SelectSeq(filtered_df, LAMBDA r : r["transferDate"] # NaT)

\* C4: the quarterly and monthly rollups are those of the rows with a known
\* transferDate alone: no bucket, under any key, includes a row whose
\* transferDate is unknown.
C4_UnknownDateInNoTimeBucket ==
    Derived =>
        /\ quarterly_data = GroupByQuarter(KnownRows)
        /\ monthly_data = GroupByMonth(KnownRows)

RECURSIVE SumBuckets(_, _, _)
\* The sum of one field over the buckets `keys` of a rollup.
SumBuckets(rollup, keys, field) ==
    IF keys = {} THEN 0
    ELSE LET k == CHOOSE x \in keys : TRUE
         IN rollup[k][field] + SumBuckets(rollup, keys \ {k}, field)

SumAll(rollup, field) == SumBuckets(rollup, DOMAIN rollup, field)

AllDatesKnown == \A i \in 1..Len(filtered_df) : filtered_df[i]["transferDate"] # NaT

\* C5: when every filtered row has a known transferDate, the quarterly
\* buckets, and the monthly buckets, add up to the statistics' Total Sale,
\* Total Cost and Total Profit of the filtered frame.
C5_PartitionCompleteness ==
    (pc = "done" /\ "statistics" \in page /\ AllDatesKnown) =>
        /\ SumAll(quarterly_data, "sale") = totals.sale
        /\ SumAll(quarterly_data, "cost") = totals.cost
        /\ SumAll(quarterly_data, "diff") = totals.profit
        /\ SumAll(monthly_data, "sale") = totals.sale
        /\ SumAll(monthly_data, "cost") = totals.cost
        /\ SumAll(monthly_data, "diff") = totals.profit

\* C5 witness: two rows of one quarter and a non-zero total.
C5_Witness ==
    /\ pc = "done"
    /\ Derived
    /\ AllDatesKnown
    /\ Len(filtered_df) = 2
    /\ Cardinality(DOMAIN quarterly_data) = 1
    /\ totals.sale = 200

\* The amounts of the raw records of a set of rows, a missing amount read as 0.
RECURSIVE RawSum(_, _)
RawSum(idx, f) ==
    IF idx = {} THEN 0
    ELSE LET i == CHOOSE x \in idx : TRUE
             v == data_list.items[i + 1][f]
         IN (IF v = <<>> THEN 0 ELSE v[1]) + RawSum(idx \ {i}, f)

\* The aggregate of a set of rows: the three sums and the number of rows.
AggregateOf(idx) ==
    [sale |-> RawSum(idx, "Total Sale"),
     cost |-> RawSum(idx, "Total Cost"),
     diff |-> RawSum(idx, "Total Difference"),
     count |-> Cardinality(idx)]

IndicesInQuarter(q) ==
    {filtered_df[i]["index"] :
        i \in {j \in 1..Len(filtered_df) :
                 /\ filtered_df[j]["transferDate"] # NaT
                 /\ filtered_df[j]["Quarter"] = q}}

IndicesOfClient(c) ==
    {filtered_df[i]["index"] :
        i \in {j \in 1..Len(filtered_df) : filtered_df[j]["Client Name"] = c}}

\* C6: every quarter bucket holds the sums and the number of exactly the
\* filtered rows dated in that quarter, and every client bucket those of
\* exactly the filtered rows of that client.
C6_BucketIsAggregateOfItsRows ==
    Derived =>
        /\ \A q \in DOMAIN quarterly_data :
              q # "NaT" => quarterly_data[q] = AggregateOf(IndicesInQuarter(q))
        /\ \A c \in DOMAIN client_finance :
              client_finance[c] = AggregateOf(IndicesOfClient(c))

TwoDigits ==
    <<"01", "02", "03", "04", "05", "06", "07", "08", "09", "10", "11", "12">>

\* The quarter a month belongs to: 1-3 Q1, 4-6 Q2, 7-9 Q3, 10-12 Q4.
QuarterName(m) ==
    IF m \in 1..3 THEN "Q1" ELSE IF m \in 4..6 THEN "Q2"
    ELSE IF m \in 7..9 THEN "Q3" ELSE "Q4"

\* C7: for every row with a known transferDate the quarter key is the year,
\* 'Q' and the quarter of the month, and the month key is the year, a hyphen
\* and the two-digit month; 2024-05-15 gives "2024Q2" and "2024-05".
C7_PeriodKeys ==
    Derived =>
        \A i \in 1..Len(filtered_df) :
            LET r == filtered_df[i]
                raw == RawOf(r)["transferDate"]
            IN r["transferDate"] # NaT =>
                /\ r["Quarter"] = ToString(raw.y) \o QuarterName(raw.m)
                /\ r["Month"] = ToString(raw.y) \o "-" \o TwoDigits[raw.m]
                /\ (raw.y = 2024 /\ raw.m = 5 /\ raw.d = 15) =>
                      (r["Quarter"] = "2024Q2" /\ r["Month"] = "2024-05")

\* C7 witness: a row dated 2024-05-15 beside a row dated at the end of March.
C7_Witness ==
    /\ Derived
    /\ Len(filtered_df) = 2
    /\ RawOf(filtered_df[1])["transferDate"] = Ymd(2024, 5, 15, 0)
    /\ filtered_df[1]["Quarter"] = "2024Q2"
    /\ filtered_df[1]["Month"] = "2024-05"
    /\ filtered_df[2]["Quarter"] = "2024Q1"
    /\ filtered_df[2]["Month"] = "2024-03"

RowsOfKey(key, k) ==
    {j \in 1..Len(filtered_df) : filtered_df[j][key] = k}

\* The sum of a field over the rows `js` that have it.
RECURSIVE PresentSum(_, _)
PresentSum(js, f) ==
    IF js = {} THEN 0
    ELSE LET j == CHOOSE x \in js : TRUE
         IN (IF filtered_df[j][f] = <<>> THEN 0 ELSE filtered_df[j][f][1])
            + PresentSum(js \ {j}, f)

ZeroForMissingAndOnePerRow(rollup, key) ==
    \A k \in DOMAIN rollup :
        /\ rollup[k].sale = PresentSum(RowsOfKey(key, k), "Total Sale")
        /\ rollup[k].cost = PresentSum(RowsOfKey(key, k), "Total Cost")
        /\ rollup[k].diff = PresentSum(RowsOfKey(key, k), "Total Difference")
        /\ rollup[k].count = Cardinality(RowsOfKey(key, k))

\* C8: in the quarterly and the client rollup a row with a missing numeric
\* field adds zero to that field's sum, and every row of a bucket adds one to
\* the bucket's case count, whatever fields it is missing.
C8_MissingAddsZeroRowAddsOne ==
    Derived =>
        /\ ZeroForMissingAndOnePerRow(quarterly_data, "Quarter")
        /\ ZeroForMissingAndOnePerRow(client_finance, "Client Name")

\* Some record of the snapshot lacks a non-date field, and every record has
\* a transferDate that parses.
LacksNonDateField ==
    /\ data_list.kind = "list"
    /\ \E i \in 1..Len(data_list.items) :
          \E f \in TextFields \cup NumFields :
              ~HasKey(data_list.items[i], f) \/ data_list.items[i][f] = None
    /\ \A i \in 1..Len(data_list.items) :
          to_datetime(data_list.items[i]["transferDate"]) # NaT

\* C9: a snapshot in which some record lacks a non-date field is processed to
\* completion: no step of the run raises.
C9_MissingFieldNeverRaises ==
    LacksNonDateField => (pc # "raised" /\ exception = "none")

FetchErrors ==
    {"error: Failed to fetch data. Status code", "error: Error connecting to API"}

\* The fetch of this run has failed.
FetchFailed == pc # "start" /\ data_list.kind = "none"

\* C10: when the fetch fails the failure is shown, and the run builds no
\* frame, applies no filter and derives no rollup, export or statistics.
C10_FailedFetchReportedNothingComputed ==
    FetchFailed =>
        /\ page \cap FetchErrors # {}
        /\ page \subseteq FetchErrors \cup
              {"warning: No data available or failed to fetch data."}
        /\ pc \in {"fetched", "done"}
        /\ exception = "none"
        /\ df = EmptyFrame
        /\ options = <<>>
        /\ filtered_df = <<>>
        /\ csv = NoCsv
        /\ quarterly_data = <<>>
        /\ monthly_data = <<>>
        /\ client_finance = <<>>
        /\ gantt_all = <<>>
        /\ overview_df = <<>>
        /\ totals = NoTotals

\* C10 witness: a run that ended after a connection error.
C10_Witness ==
    /\ pc = "done"
    /\ data_list.kind = "none"
    /\ "error: Error connecting to API" \in page

----------------------------------------------------------------------------
\* Nothing has been computed: every output has its initial value.
NothingComputed ==
    /\ df = EmptyFrame
    /\ options = <<>>
    /\ selection = NoSelection
    /\ filtered_df = <<>>
    /\ csv = NoCsv
    /\ quarterly_data = <<>>
    /\ monthly_data = <<>>
    /\ client_finance = <<>>
    /\ gantt_all = <<>>
    /\ overview_df = <<>>
    /\ totals = NoTotals
    /\ data = NoCase

\* A filtered row without the Quarter and Month that the dashboard adds.
BaseRow(r) == [f \in DOMAIN r \ {"Quarter", "Month"} |-> r[f]]

BaseRows == [i \in 1..Len(filtered_df) |-> BaseRow(filtered_df[i])]

\* C11: in every run of a session there is exactly one fetch; a run starts
\* with nothing kept of the run before; the frame is made of the records of
\* this run's snapshot, the filtered rows are rows of that frame, and the
\* export, the rollups, the timeline, the overview and the totals of a run
\* that has ended are those of these filtered rows.
C11_OneFetchPerRunOutputsOfItsSnapshot ==
    /\ fetches = (IF pc = "start" THEN 0 ELSE 1)
    /\ pc = "start" => (data_list = NoData /\ page = {} /\ NothingComputed)
    /\ pc = "fetched" => NothingComputed
    /\ df # EmptyFrame => Len(df.rows) = Len(data_list.items)
    /\ pc \in {"sidebar", "raised", "done"} =>
          \A i \in 1..Len(df.rows) : \A f \in df.columns :
              df.rows[i][f] = Cell(data_list.items[i], f)
    /\ \A i \in 1..Len(filtered_df) :
          /\ filtered_df[i]["index"] + 1 \in 1..Len(df.rows)
          /\ \A f \in df.columns :
                filtered_df[i][f] = df.rows[filtered_df[i]["index"] + 1][f]
    /\ IF Filtered
       THEN csv.header = df.order /\ Len(csv.rows) = Len(filtered_df)
       ELSE csv = NoCsv /\ filtered_df = <<>>
    /\ ~Derived =>
          /\ quarterly_data = <<>> /\ monthly_data = <<>>
          /\ client_finance = <<>> /\ gantt_all = <<>>
    /\ "statistics" \notin page => (overview_df = <<>> /\ totals = NoTotals)
    /\ (pc = "done" /\ Filtered) =>
          /\ overview_df = OverviewTable(filtered_df)
          /\ totals = Statistics(filtered_df)
          /\ Derived =>
                /\ quarterly_data = GroupByQuarter(filtered_df)
                /\ monthly_data = GroupByMonth(filtered_df)
                /\ client_finance = GroupByClient(filtered_df)
                /\ gantt_all = Timeline(filtered_df)

\* C11 witness: a run whose fetch failed, after an earlier run of the session
\* had fetched a list, has ended with nothing computed.
C11_Witness ==
    /\ stale
    /\ pc = "done"
    /\ FetchFailed
    /\ fetches = 1
    /\ df = EmptyFrame
    /\ totals = NoTotals

----------------------------------------------------------------------------
\* C12: the filtered rows are a subsequence of the frame's rows: there are at
\* most as many, each is the frame's row of its index label, and the index
\* labels increase along the filtered rows (the relative order is kept).
C12_FilteredIsSubsequence ==
    /\ Len(filtered_df) <= Len(df.rows)
    /\ \A i \in 1..Len(filtered_df) :
          /\ filtered_df[i]["index"] + 1 \in 1..Len(df.rows)
          /\ \A f \in df.columns \cup {"index"} :
                filtered_df[i][f] = df.rows[filtered_df[i]["index"] + 1][f]
    /\ \A i \in 1..(Len(filtered_df) - 1) :
          filtered_df[i]["index"] < filtered_df[i + 1]["index"]

\* C12 witness: of two records with different dates both are kept by a date
\* range, in the snapshot's order, and another selection keeps the second alone.
C12_Witness ==
    /\ Filtered
    /\ Len(df.rows) = 2
    /\ Len(selection.date_range) = 2
    /\ df.rows[1]["transferDate"] < df.rows[2]["transferDate"]
    /\ \/ Len(filtered_df) = 2
       \/ Len(filtered_df) = 1 /\ filtered_df[1]["index"] = 1

----------------------------------------------------------------------------
\* C13: filtering is idempotent and repeatable: the selection applied to the
\* filtered rows gives the filtered rows again, and applied once more to the
\* frame it gives the same rows as the first time.
C13_FilterIdempotentAndRepeatable ==
    Filtered =>
        /\ ApplyFilters([df EXCEPT !.rows = BaseRows], selection) = BaseRows
        /\ ApplyFilters(df, selection) = BaseRows

\* C13 witness: a selection of values and of a date range that keeps some
\* rows of the frame and drops others.
C13_Witness ==
    /\ Filtered
    /\ filtered_df # <<>>
    /\ Len(filtered_df) < Len(df.rows)
    /\ selection.car # "All"
    /\ Len(selection.date_range) = 2

----------------------------------------------------------------------------
\* The step taken is SelectAndFilter, Dashboard or Overview.
WorksOnFilteredRows == pc \in {"sidebar", "filtered", "dashboard"}

\* C14: the steps that work on the filtered rows (filtering, adding Quarter
\* and Month, building the timeline, formatting the overview) leave the
\* frame df as it was: the same columns, the same rows, the same values.
C14_SourceFrameUnchanged == [][WorksOnFilteredRows => UNCHANGED df]_vars

\* C14 witness: a run has ended with no filter active (every dimension 'All',
\* one date picked), the dashboard derived and the overview formatted, and
\* the frame has neither a Quarter nor a Month column.
C14_Witness ==
    /\ pc = "done"
    /\ Derived
    /\ selection.car = "All" /\ selection.client = "All"
    /\ selection.case_type = "All" /\ selection.status = "All"
    /\ Len(selection.date_range) = 1
    /\ Len(filtered_df) = Len(df.rows)
    /\ "Quarter" \in DOMAIN filtered_df[1]
    /\ gantt_all # <<>>
    /\ overview_df # <<>>
    /\ df.columns \cap {"Quarter", "Month"} = {}

----------------------------------------------------------------------------
\* The frame has been built in this run.
FrameBuilt == pc \in {"sidebar", "raised"} /\ Usable

\* C15: the frame built from a snapshot of N records has N rows, and its i-th
\* row is the i-th record: it carries that record's text and amounts (NaN
\* where the record lacks the field) and a date that is known exactly when the
\* record's date is a real date, whatever fields or dates the records have.
C15_NormalizationKeepsEveryRecordInOrder ==
    FrameBuilt =>
        /\ Len(df.rows) = Len(data_list.items)
        /\ \A i \in 1..Len(data_list.items) :
              LET rec == data_list.items[i]
                  row == df.rows[i]
              IN /\ row["index"] = i - 1
                 /\ \A f \in df.columns \cap TextFields :
                       row[f] = (IF rec[f] = Absent THEN NaN ELSE rec[f])
                 /\ \A f \in df.columns \cap NumFields : row[f] = rec[f]
                 /\ \A f \in df.columns \cap DateFields :
                       IF rec[f].k = "ymd"
                       THEN row[f] = Timestamp(rec[f].y, rec[f].m, rec[f].d, rec[f].h)
                       ELSE row[f] = NaT

\* C15 witness: a frame of two rows whose first record has a transferDate that
\* is no date and whose second record lacks a field.
C15_Witness ==
    /\ FrameBuilt
    /\ Len(df.rows) = 2
    /\ "transferDate" \in df.columns
    /\ df.rows[1]["transferDate"] = NaT
    /\ \E f \in df.columns \cap (TextFields \cup NumFields) :
          ~HasKey(data_list.items[2], f)

----------------------------------------------------------------------------
\* The snapshot of this run with the date field f of its i-th record
\* replaced by a date that parses.
Repaired(i, f) ==
    [data_list.items EXCEPT ![i] = With(@, f, Ymd(EpochYear, 1, 20, 0))]

\* C16: where a date field of a record does not parse, that cell alone is
\* unknown: the frame has the rows, and every other cell of that row and of
\* every other row, that it would have if the field had parsed.
C16_ParseFailureContainedToField ==
    FrameBuilt =>
        \A i \in 1..Len(data_list.items) : \A f \in DateFields :
            to_datetime(data_list.items[i][f]) = NaT =>
                LET parsed == DataFrame(Repaired(i, f))
                IN /\ Len(df.rows) = Len(data_list.items)
                   /\ Len(parsed.rows) = Len(df.rows)
                   /\ parsed.rows[i][f] # NaT
                   /\ f \in df.columns => df.rows[i][f] = NaT
                   /\ \A j \in 1..Len(df.rows) :
                         \A g \in df.columns \cup {"index"} :
                             (j # i \/ g # f) => df.rows[j][g] = parsed.rows[j][g]

\* C16 witness: a row whose NOCissuedDate did not parse while its
\* transferDate and its Invoice Date did, beside a row whose transferDate did
\* not parse.
C16_Witness ==
    /\ FrameBuilt
    /\ DateFields \subseteq df.columns
    /\ \E i \in 1..Len(df.rows) :
          /\ df.rows[i]["NOCissuedDate"] = NaT
          /\ df.rows[i]["transferDate"] # NaT
          /\ df.rows[i]["Invoice Date"] # NaT
    /\ \E i \in 1..Len(df.rows) :
          /\ data_list.items[i]["transferDate"] = TextDate
          /\ df.rows[i]["transferDate"] = NaT
          /\ df.rows[i]["NOCissuedDate"] # NaT

----------------------------------------------------------------------------
\* The span at position k of the timeline is the span of row r and of type.
IsSpanOf(k, r, type, amount) ==
    /\ gantt_all[k].Type = type
    /\ gantt_all[k].Client = r["Client Name"]
    /\ gantt_all[k].Task = r["Client Name"] \o " " \o type
    /\ gantt_all[k].Amount = r[amount]
    /\ gantt_all[k].Start = r["transferDate"]
    /\ DayOf(gantt_all[k].End) = DayOf(r["transferDate"]) + 7
    /\ HourOf(gantt_all[k].End) = HourOf(r["transferDate"])

\* C17: the timeline of a derived dashboard holds, for the k-th filtered row
\* with a known transferDate, one profit span (amount 'Total Difference',
\* label the client name and ' Profit') and one cost span (amount 'Total
\* Cost', label the client name and ' Cost'), both from the transferDate to
\* the same time of day 7 days later, and nothing else: twice as many spans
\* as filtered rows with a known date, none for a row without one, and one
\* pair for each row of a client who has several.
C17_TimelineTwoSpansPerKnownDate ==
    Derived =>
        /\ Len(gantt_all) = 2 * Len(KnownRows)
        /\ \A k \in 1..Len(KnownRows) :
              /\ IsSpanOf(k, KnownRows[k], "Profit", "Total Difference")
              /\ IsSpanOf(Len(KnownRows) + k, KnownRows[k], "Cost", "Total Cost")

\* C17 witness: of two filtered rows of one client the first has no known
\* transferDate, and the timeline has the two spans of the second.
C17_Witness ==
    /\ Derived
    /\ Len(filtered_df) = 2
    /\ filtered_df[1]["transferDate"] = NaT
    /\ filtered_df[2]["transferDate"] # NaT
    /\ filtered_df[1]["Client Name"] = filtered_df[2]["Client Name"]
    /\ Len(gantt_all) = 2
    /\ gantt_all[1].Task = "X Profit"
    /\ gantt_all[2].Task = "X Cost"

----------------------------------------------------------------------------
\* C18: a selection that matches no record is no error: the run does not
\* raise, and when it has ended the totals show zero cases and zero amounts
\* and the warning 'No cases match your filters' stands in place of the case
\* details.
C18_EmptyResultIsNoError ==
    (Filtered /\ filtered_df = <<>>) =>
        /\ pc # "raised"
        /\ exception = "none"
        /\ pc = "done" =>
              /\ totals = [cases |-> 0, cost |-> 0, sale |-> 0, profit |-> 0]
              /\ "warning: No cases match your filters" \in page
              /\ "case_details" \notin page
              /\ "quarterly_dashboard" \notin page

----------------------------------------------------------------------------
\* The text of a CSV cell, read back as a value of field f, is the cell: the
\* empty text is a missing value, a number may be written with ".0", and a
\* date written without a time of day is read as midnight.
ReadsAs(text, f, cell) ==
    IF f \in DateFields
    THEN IF cell = NaT THEN text = ""
         ELSE \/ text = DateTimeText(cell)
              \/ HourOf(cell) = 0 /\ text = DateText(cell)
    ELSE IF f \in NumFields
    THEN IF cell = <<>> THEN text = ""
         ELSE text \in {ToString(cell[1]), ToString(cell[1]) \o ".0"}
    ELSE IF IsNA(cell) THEN text = "" ELSE text = cell

\* One CSV row per filtered row, in order, whose texts read back as the
\* row's values; with currency true an amount may also be in rupee format.
CsvRowsAreFilteredRows(currency) ==
    /\ Len(csv.rows) = Len(filtered_df)
    /\ \A i \in 1..Len(csv.rows) :
          /\ Len(csv.rows[i]) = Len(df.order)
          /\ \A k \in 1..Len(df.order) :
                \/ ReadsAs(csv.rows[i][k], df.order[k], filtered_df[i][df.order[k]])
                \/ /\ currency
                   /\ df.order[k] \in NumFields
                   /\ csv.rows[i][k] = format_rupees(filtered_df[i][df.order[k]])

\* C19 as stated: the header of the export is the original field names with
\* 'Buyer payment' relabeled 'Status', followed by one row per filtered record
\* in filtered order whose values are the record's values up to currency
\* formatting.
C19_CsvHeaderRelabelsStatus ==
    Filtered =>
        /\ csv.header = [k \in 1..Len(df.order) |-> Renamed(df.order[k])]
        /\ CsvRowsAreFilteredRows(TRUE)

\* C19 amended: the header of the export is the original field names as they
\* are, 'Buyer payment' included and neither 'Status' nor the derived
\* 'Quarter' and 'Month' among them, followed by one row per filtered record
\* in filtered order whose values are the record's values, the amounts as
\* plain numbers.
C19_CsvIsFilteredFrameAsIs ==
    Filtered =>
        /\ csv.header = ColumnOrder(data_list.items)
        /\ Range(csv.header) = ColumnsOf(data_list.items)
        /\ Range(csv.header) \cap {"Status", "Quarter", "Month"} = {}
        /\ CsvRowsAreFilteredRows(FALSE)

\* C19 witness: an export of two rows with the column 'Buyer payment', in
\* which one record's missing 'Total Sale' is written as the empty text and
\* the other's as "100.0".
C19_Witness ==
    /\ Filtered
    /\ Len(csv.rows) = 2
    /\ \E k \in 1..Len(csv.header) : csv.header[k] = "Buyer payment"
    /\ \E k \in 1..Len(csv.header) :
          /\ csv.header[k] = "Total Sale"
          /\ csv.rows[1][k] = "100.0"
          /\ csv.rows[2][k] = ""

----------------------------------------------------------------------------
\* The filtered rows, with Quarter and Month, that the run would group had
\* the API returned the records of its snapshot in the order p.
RowsInOrder(p) ==
    AddPeriods(ApplyFilters(
        DataFrame([i \in 1..Len(data_list.items) |-> data_list.items[p[i]]]),
        selection))

\* C20: the rollups do not depend on the order of the records: for every
\* permutation of the snapshot the quarterly, monthly and client rollups have
\* the same keys and under each key the same sums and the same count.
C20_RollupsIndependentOfOrder ==
    Derived =>
        \A p \in Permutations(1..Len(data_list.items)) :
            /\ GroupByQuarter(RowsInOrder(p)) = quarterly_data
            /\ GroupByMonth(RowsInOrder(p)) = monthly_data
            /\ GroupByClient(RowsInOrder(p)) = client_finance

\* C20 witness: two records of one client with different amounts in different
\* quarters have been grouped.
C20_Witness ==
    /\ Derived
    /\ Len(filtered_df) = 2
    /\ filtered_df[1]["Total Sale"] # filtered_df[2]["Total Sale"]
    /\ Cardinality(DOMAIN quarterly_data) = 2
    /\ Cardinality(DOMAIN client_finance) = 1
    /\ client_finance["X"].sale = 300
    /\ client_finance["X"].count = 2

----------------------------------------------------------------------------
\* The row passes the four selectboxes: each is 'All' or compares equal.
PassesSelectboxes(r) ==
    /\ selection.car = "All" \/ Eq(r["Car Number"], selection.car)
    /\ selection.client = "All" \/ Eq(r["Client Name"], selection.client)
    /\ selection.case_type = "All" \/ Eq(r["Case Type"], selection.case_type)
    /\ selection.status = "All" \/ Eq(r["Amount Status"], selection.status)

\* The date constraint is in force: two dates picked on a frame that has the
\* transferDate column.
DateConstraintApplies ==
    "transferDate" \in df.columns /\ Len(selection.date_range) = 2

\* C21: the date constraint is applied exactly when the selection holds two
\* dates.  With one date picked, or with no transferDate column, every row
\* that passes the four selectboxes is kept whatever its transferDate, the
\* unknown one included; with two dates the rows outside them are dropped.
C21_DateConstraintOnlyWithTwoDates ==
    Filtered =>
        IF DateConstraintApplies
        THEN FilteredIndices =
                 {r["index"] : r \in {x \in SourceRows :
                     PassesSelectboxes(x) /\ InSelectedRange(x)}}
        ELSE FilteredIndices =
                 {r["index"] : r \in {x \in SourceRows : PassesSelectboxes(x)}}

\* C21 witness: one date is picked and both rows are kept, one with an
\* unknown transferDate and one with a known one.
C21_Witness ==
    /\ Filtered
    /\ Len(selection.date_range) = 1
    /\ Len(filtered_df) = 2
    /\ \E i \in 1..2 : filtered_df[i]["transferDate"] = NaT
    /\ \E i \in 1..2 : filtered_df[i]["transferDate"] # NaT

----------------------------------------------------------------------------
\* The case-detail view has been shown in this run.
DetailShown == "case_details" \in page

\* The filtered record whose option the user picked in the selectbox.
PickedRecord == filtered_df[picked]

\* The position of the first filtered record that has the selected label.
FirstWithLabel == IndexOf(case_options(filtered_df), selected_case)

\* C22: the case-detail view shows the first filtered record whose
\* 'Car Number - Client Name' label is the selected label, and the record
\* shown has the car number and the client name of the record that was
\* selected.
C22_DetailShowsSelectedCarAndClient ==
    DetailShown =>
        /\ selected_case = CaseLabel(PickedRecord)
        /\ data = to_dict(filtered_df[FirstWithLabel])
        /\ \A j \in 1..(FirstWithLabel - 1) :
               CaseLabel(filtered_df[j]) # selected_case
        /\ data["Car Number"] = PickedRecord["Car Number"]
        /\ data["Client Name"] = PickedRecord["Client Name"]

----------------------------------------------------------------------------
\* The label is the amount in the unit: the rupee sign, the amount divided by
\* the unit to one decimal, and the unit's suffix.
InUnit(label, amount, unit, suffix) ==
    label = "₹" \o OneDecimal(amount, unit) \o suffix

\* The label is the amount written whole, unabbreviated.
Unabbreviated(label, amount) == label = "₹" \o Plain(amount)

\* The unit of the label follows the thresholds on the signed amount.
UnitByThreshold(label, amount) ==
    /\ amount >= 10000000 => InUnit(label, amount, 10000000, "Cr")
    /\ (100000 <= amount /\ amount < 10000000) =>
           InUnit(label, amount, 100000, "L")
    /\ (1000 <= amount /\ amount < 100000) => InUnit(label, amount, 1000, "K")
    /\ amount < 1000 => Unabbreviated(label, amount)
    /\ amount < 0 => Unabbreviated(label, amount)

\* C23: every label of the timeline is its amount in crores from 10,000,000,
\* in lakhs from 100,000 up to 10,000,000, in thousands from 1,000 up to
\* 100,000, and the whole amount below 1,000; a negative amount is written
\* whole whatever its size.
C23_ShortFormatUnitByThreshold ==
    Derived =>
        \A k \in 1..Len(gantt_all) :
            /\ gantt_all[k].Amount # <<>> =>
                   UnitByThreshold(gantt_all[k].ProfitLabel, gantt_all[k].Amount[1])
            /\ gantt_all[k].Cost # <<>> =>
                   UnitByThreshold(gantt_all[k].CostLabel, gantt_all[k].Cost[1])

\* C23 witness: a profit of 9,999,999 shown in lakhs beside a loss of
\* 25,000,000 shown whole.
C23_Witness ==
    /\ Derived
    /\ Len(gantt_all) = 2
    /\ gantt_all[1].Amount = <<9999999>>
    /\ gantt_all[1].ProfitLabel = "₹100.0L"
    /\ gantt_all[2].Amount = <<-25000000>>
    /\ gantt_all[2].CostLabel = "₹-25,000,000"

============================================================================
